---- MODULE Spec2Model ----
(***************************************************************************)
(* A model of Taipower/connection.py: the TaipowerConnection client, its   *)
(* login procedure, the authenticated request sender and the four         *)
(* endpoint accessors (GetMember, GetAMIBill, GetAMI, GetBillRecords).     *)
(*                                                                         *)
(* The network is the environment: every httpx.post is answered by a       *)
(* response chosen from a bounded set, after a bounded latency. Python     *)
(* exceptions are outcomes of the calls (Raise), Python's None is the      *)
(* value None, and an object is the function from its attribute names to   *)
(* their values, so that reading an attribute that was never assigned is   *)
(* an AttributeError and reading a key a JSON body does not have is a      *)
(* KeyError.                                                               *)
(***************************************************************************)
EXTENDS Integers, Sequences, FiniteSets, TLC

\* ------------------------------------------------------------------ bounds
\* time.time() takes the values 0..MaxClock
MaxClock == 3
\* a POST takes 0..MaxLatency seconds
MaxLatency == 1
\* the server's expires_in takes the values 1..MaxTTL
MaxTTL == 2

\* ------------------------------------------------------- program constants
ENDPOINT == "mapp-2019.taipower.com.tw"
BASIC_AUTH == "dHBlYy13U1pvLTVDNjZTZG84ZzM6X1UyVlpZd05kWi1hTW9ILV9fZlctZ3ROR0lwVmgydy4="
APP_VERSION == "3.0.6"
\* httpx.codes.ok
HTTP_OK == 200

\* ------------------------------------------------------------ Python values
\* Python's None
None == [none |-> TRUE]

\* the outcome of a call: a returned value or a raised exception
Return(v) == [kind |-> "return", value |-> v]
Raise(exc, what) == [kind |-> "raise", exc |-> exc, what |-> what]

\* hasattr(obj, name) / key in dict
HasAttr(obj, name) == name \in DOMAIN obj
HasKey(dict, key) == key \in DOMAIN dict

\* @dataclass TaipowerTokens
TaipowerTokens(access_token, refresh_token, expiration) ==
    [access_token |-> access_token, refresh_token |-> refresh_token,
     expiration |-> expiration]

\* Truthy taking every supplied value for falsy
Truthy_never(x) == FALSE

\* bool(x) of the values a caller passes as taipower_tokens: None is falsy, a
\* dataclass instance (no __bool__, no __len__) is truthy whatever its fields
Truthy(x) == x # None

\* A JSON value of the `error` key, tagged with its JSON type
JStr(s) == [str |-> s]
JNull == [null |-> TRUE]
JNum(n) == [num |-> n]

\* f"{v}" of a JSON value: a str is itself, null is "None", a number its digits
PyFormat(v) ==
    IF HasKey(v, "str") THEN v.str
    ELSE IF HasKey(v, "null") THEN "None"
    ELSE ToString(v.num)

\* utility.des_encrypt: the password obfuscation helper (an opaque encoder)
des_encrypt(plaintext) == <<"des", plaintext>>

\* f"https://{ENDPOINT}/{api_name}"; api_name is the sequence of its path segments
Url(api_name) == <<"https:", ENDPOINT>> \o api_name

\* httpx.post(url, headers=..., json=... | data=...): the request put on the wire
Post(url, headers, encoding, body) ==
    [method |-> "POST", url |-> url, headers |-> headers,
     encoding |-> encoding, body |-> body]

\* ------------------------------------------------------------ input domains
Classes == {"TaipowerConnection", "GetMember", "GetAMIBill", "GetAMI", "GetBillRecords"}
Accounts == {"0912345678"}
Passwords == {"hunter2"}
ElectricNumbers == {"07123456789"}
\* str(uuid.uuid4()): the client sends the value and never reads it again
DeviceIds == {"uuid-1"}

\* TokenSets a caller obtained earlier and passes to the constructor
SuppliedTokens == {TaipowerTokens("A0", "R0", e) : e \in {1, MaxClock + 1}}

\* bodies of the token endpoint's answers
GrantBodies ==
    [token_type : {"bearer", "mac"}, access_token : {"A"},
     refresh_token : {"R"}, expires_in : 1..MaxTTL]
TokenErrors == {JStr("invalid_grant"), JStr("OK"), JNull}
GrantErrorBodies ==
    [token_type : {"bearer"}, access_token : {"A"},
     refresh_token : {"R"}, expires_in : {1}, error : {JStr("invalid_grant"), JStr("OK")}]
ErrorBodies(errors) == [error : errors]
TokenResponses ==
    [status_code : {HTTP_OK, 400},
     json : GrantBodies \cup GrantErrorBodies \cup ErrorBodies(TokenErrors)
            \cup {[message |-> "maintenance"]}]

\* bodies of the data endpoints' answers
DataErrors == {JStr("forbidden"), JNull, JNum(5)}
DataResponses ==
    [status_code : {HTTP_OK, 401, 403},
     json : {[x |-> 1]} \cup ErrorBodies(DataErrors)]

\* a point in time passed to GetAMI.get_data
Datetimes == {[year |-> 2024, month |-> 1, day |-> 5],
              [year |-> 1999, month |-> 12, day |-> 31]}
TimePeriods == {"hour", "daily", "monthly", "quater", "quarter"}

\* -------------------------------------------------------------------- state
VARIABLES
    \* the client object: None while there is none, else its attributes
    self,
    \* time.time()
    clock,
    \* the last call made on the client: its arguments, the requests it put
    \* on the wire, the response it was given and its outcome
    op

vars == <<self, clock, op>>

\* ------------------------------------------------- TaipowerConnection methods
\* _generate_headers
_generate_headers(me, token_type) ==
    IF token_type = "bearer"
    THEN IF ~HasAttr(me, "_taipower_tokens")
         THEN Raise("AttributeError", "_taipower_tokens")
         ELSE IF me._taipower_tokens = None
         THEN Raise("AttributeError", "access_token")
         ELSE Return([Accept |-> "*",
                      Authorization |-> <<"Bearer", me._taipower_tokens.access_token>>,
                      UserAgent |-> "Mozilla/5.0 ( compatible )"])
    ELSE Return([Accept |-> "*",
                 Authorization |-> <<"Basic", BASIC_AUTH>>,
                 UserAgent |-> "Mozilla/5.0 ( compatible )"])

\* _handle_response classifying by the body's `error` key, not by the status
_handle_response_by_error_key(response) ==
    IF HasKey(response.json, "error")
    THEN Return(<<PyFormat(response.json.error), response.json>>)
    ELSE Return(<<"OK", response.json>>)

\* _handle_response
_handle_response(response) ==
    IF response.status_code = HTTP_OK
    THEN Return(<<"OK", response.json>>)
    ELSE IF HasKey(response.json, "error")
    THEN Return(<<PyFormat(response.json.error), response.json>>)
    ELSE Raise("KeyError", "error")

\* _send: the requests it issues and its outcome (print_response only prints)
_send(me, api_name, json, response) ==
    LET headers == _generate_headers(me, "bearer") IN
    IF headers.kind = "raise"
    THEN [reqs |-> <<>>, out |-> headers]
    ELSE [reqs |-> <<Post(Url(api_name), headers.value, "json", json)>>,
          out |-> _handle_response(response)]

\* login, lines 103-116: the body of the token request
login_json_data(me, use_refresh_token, device_id) ==
    IF use_refresh_token /\ ~HasAttr(me, "_aws_tokens")
    THEN Raise("AttributeError", "_aws_tokens")
    ELSE IF use_refresh_token /\ me._aws_tokens # None
    THEN IF ~HasAttr(me, "_taipower_tokens")
         THEN Raise("AttributeError", "_taipower_tokens")
         ELSE IF me._taipower_tokens = None
         THEN Raise("AttributeError", "refresh_token")
         ELSE Return([refresh_token |-> me._taipower_tokens.refresh_token,
                      grant_type |-> "refresh_token"])
    ELSE Return([username |-> me._account,
                 password |-> des_encrypt(me._password),
                 grant_type |-> "password",
                 scope |-> "tpec",
                 device_id |-> device_id,
                 appVersion |-> APP_VERSION])

\* login_result with the server's ttl left out of the expiration
login_result_no_ttl(me, use_refresh_token, status, response, now) ==
    IF status # "OK"
    THEN Return(<<status, None>>)
    ELSE IF ~HasKey(response, "token_type")
    THEN Raise("KeyError", "token_type")
    ELSE IF response.token_type # "bearer"
    THEN Return(<<status, None>>)
    ELSE IF ~HasKey(response, "access_token")
    THEN Raise("KeyError", "access_token")
    ELSE IF use_refresh_token /\ ~HasAttr(me, "_taipower_tokens")
    THEN Raise("AttributeError", "_taipower_tokens")
    ELSE IF use_refresh_token /\ me._taipower_tokens = None
    THEN Raise("AttributeError", "refresh_token")
    ELSE IF ~use_refresh_token /\ ~HasKey(response, "refresh_token")
    THEN Raise("KeyError", "refresh_token")
    ELSE IF ~HasKey(response, "expires_in")
    THEN Raise("KeyError", "expires_in")
    ELSE Return(<<status,
                  TaipowerTokens(response.access_token,
                                 IF use_refresh_token
                                 THEN me._taipower_tokens.refresh_token
                                 ELSE response.refresh_token,
                                 now)>>)

\* login, lines 132-139: the (status, tokens) built from the handled response
login_result(me, use_refresh_token, status, response, now) ==
    IF status # "OK"
    THEN Return(<<status, None>>)
    ELSE IF ~HasKey(response, "token_type")
    THEN Raise("KeyError", "token_type")
    ELSE IF response.token_type # "bearer"
    THEN Return(<<status, None>>)
    ELSE IF ~HasKey(response, "access_token")
    THEN Raise("KeyError", "access_token")
    ELSE IF use_refresh_token /\ ~HasAttr(me, "_taipower_tokens")
    THEN Raise("AttributeError", "_taipower_tokens")
    ELSE IF use_refresh_token /\ me._taipower_tokens = None
    THEN Raise("AttributeError", "refresh_token")
    ELSE IF ~use_refresh_token /\ ~HasKey(response, "refresh_token")
    THEN Raise("KeyError", "refresh_token")
    ELSE IF ~HasKey(response, "expires_in")
    THEN Raise("KeyError", "expires_in")
    ELSE Return(<<status,
                  TaipowerTokens(response.access_token,
                                 IF use_refresh_token
                                 THEN me._taipower_tokens.refresh_token
                                 ELSE response.refresh_token,
                                 now + response.expires_in)>>)

\* login: the requests it issues and its outcome; `now` is what time.time()
\* returns once the token endpoint has answered
login(me, use_refresh_token, response, device_id, now) ==
    LET data == login_json_data(me, use_refresh_token, device_id)
        login_headers == _generate_headers(me, "basic")
        handled == _handle_response(response)
    IN  IF data.kind = "raise"
        THEN [reqs |-> <<>>, out |-> data]
        ELSE [reqs |-> <<Post(Url(<<"oauth", "token">>), login_headers.value,
                              "data", data.value)>>,
              out |-> IF handled.kind = "raise"
                      THEN handled
                      ELSE login_result(me, use_refresh_token, handled.value[1],
                                        handled.value[2], now)]

\* ------------------------------------------------------------ GetAMI helpers
\* two and four decimal digits, as strftime writes %m, %d and %Y
Digits2(n) == <<n \div 10, n % 10>>
Digits4(n) == <<n \div 1000, (n \div 100) % 10, (n \div 10) % 10, n % 10>>

\* datetime.strftime
strftime(dt, format) ==
    CASE format = "%Y%m%d" -> Digits4(dt.year) \o Digits2(dt.month) \o Digits2(dt.day)
      [] format = "%Y%m" -> Digits4(dt.year) \o Digits2(dt.month)
      [] format = "%Y" -> Digits4(dt.year)

\* ami_time with the formats of `daily` and `monthly` exchanged
ami_time_swapped(time_period, dt) ==
    IF time_period = "hour" THEN Return(<<"date", strftime(dt, "%Y%m%d")>>)
    ELSE IF time_period = "daily" THEN Return(<<"yearMonth", strftime(dt, "%Y")>>)
    ELSE IF time_period = "monthly" THEN Return(<<"year", strftime(dt, "%Y%m")>>)
    ELSE IF time_period = "quater" THEN Return(<<"date", strftime(dt, "%Y%m%d")>>)
    ELSE Raise("ValueError", "time_period")

\* ami_time falling back to the `hour` format instead of refusing
ami_time_fallback(time_period, dt) ==
    IF time_period = "daily" THEN Return(<<"yearMonth", strftime(dt, "%Y%m")>>)
    ELSE IF time_period = "monthly" THEN Return(<<"year", strftime(dt, "%Y")>>)
    ELSE Return(<<"date", strftime(dt, "%Y%m%d")>>)

\* GetAMI.get_data, lines 209-222: (time_text, time_rep) of a time_period
ami_time(time_period, dt) ==
    IF time_period = "hour" THEN Return(<<"date", strftime(dt, "%Y%m%d")>>)
    ELSE IF time_period = "daily" THEN Return(<<"yearMonth", strftime(dt, "%Y%m")>>)
    ELSE IF time_period = "monthly" THEN Return(<<"year", strftime(dt, "%Y")>>)
    ELSE IF time_period = "quater" THEN Return(<<"date", strftime(dt, "%Y%m%d")>>)
    ELSE Raise("ValueError", "time_period")

\* GetAMI.get_data
GetAMI_get_data(me, time_period, dt, electric_number, response) ==
    LET t == ami_time(time_period, dt) IN
    IF t.kind = "raise"
    THEN [reqs |-> <<>>, out |-> t]
    ELSE _send(me, <<"api", "ami", time_period>>,
               (t.value[1] :> t.value[2]) @@ ("custNo" :> electric_number),
               response)

\* GetMember.get_data
GetMember_get_data(me, response) ==
    _send(me, <<"member", "getData">>, None, response)

\* GetAMIBill.get_data
GetAMIBill_get_data(me, electric_number, response) ==
    _send(me, <<"api", "home", "bills">>,
          [phoneNo |-> me._account, deviceId |-> "", customNo |-> electric_number],
          response)

\* GetBillRecords.get_data
GetBillRecords_get_data(me, electric_number, response) ==
    _send(me, <<"api", "mybill", "records">>, [customNo |-> electric_number], response)

\* ------------------------------------------------------------------ actions
\* the record of a call: `r` is what the method did (reqs, out); a response is
\* recorded when a request was issued. Time passes while the token endpoint's
\* answer is awaited; the data calls never read the clock, and the time they
\* take is Tick's.
Called(name, args, r, response, d) ==
    [name |-> name, args |-> args, t0 |-> clock, t1 |-> clock + d, reqs |-> r.reqs,
     response |-> IF r.reqs = <<>> THEN None ELSE response, out |-> r.out]

Awaited(r, d) ==
    /\ clock + d <= MaxClock
    /\ r.reqs = <<>> => d = 0
    /\ clock' = clock + d

\* TaipowerConnection.__init__ (the accessors' __init__ only call it)
__init__(cls, account, password, taipower_tokens, response, device_id, d) ==
    LET me == [class |-> cls, _login_response |-> None,
               _account |-> account, _password |-> password]
        r == login(me, FALSE, response, device_id, clock + d)
        args == [cls |-> cls, taipower_tokens |-> taipower_tokens]
    IN  /\ self = None
        /\ IF Truthy(taipower_tokens)
           THEN /\ self' = me @@ [_taipower_tokens |-> taipower_tokens]
                /\ op' = Called("__init__", args, [reqs |-> <<>>, out |-> Return(None)], response, d)
                /\ Awaited([reqs |-> <<>>], d)
           ELSE /\ Awaited(r, d)
                /\ IF r.out.kind = "raise"
                   THEN /\ self' = None
                        /\ op' = Called("__init__", args, r, response, d)
                   ELSE IF r.out.value[1] # "OK"
                   THEN /\ self' = None
                        /\ op' = Called("__init__", args,
                                        [reqs |-> r.reqs,
                                         out |-> Raise("RuntimeError", r.out.value[1])],
                                        response, d)
                   ELSE /\ self' = me @@ [_taipower_tokens |-> r.out.value[2]]
                        /\ op' = Called("__init__", args,
                                        [reqs |-> r.reqs, out |-> Return(None)], response, d)

\* Login storing the TokenSet it was issued
Login_storing(use_refresh_token, response, device_id, d) ==
    LET r == login(self, use_refresh_token, response, device_id, clock + d) IN
    /\ self # None
    /\ clock + d <= MaxClock
    /\ r.reqs = <<>> => d = 0
    /\ clock' = clock + d
    /\ op' = [name |-> "login", args |-> [use_refresh_token |-> use_refresh_token],
              t0 |-> clock, t1 |-> clock + d, reqs |-> r.reqs,
              response |-> IF r.reqs = <<>> THEN None ELSE response, out |-> r.out]
    /\ self' = IF r.out.kind = "return" /\ r.out.value[1] = "OK"
               THEN [self EXCEPT !._taipower_tokens = r.out.value[2]]
               ELSE self

\* an explicit login call on the client
Login(use_refresh_token, response, device_id, d) ==
    LET r == login(self, use_refresh_token, response, device_id, clock + d) IN
    /\ self # None
    /\ Awaited(r, d)
    /\ op' = Called("login", [use_refresh_token |-> use_refresh_token], r, response, d)
    /\ UNCHANGED self

\* get_data of the base class
BaseGetData ==
    /\ self # None
    /\ self.class = "TaipowerConnection"
    /\ op' = Called("get_data", [none |-> TRUE],
                    [reqs |-> <<>>, out |-> Raise("NotImplementedError", "get_data")], None, 0)
    /\ UNCHANGED <<self, clock>>

GetMemberData(response) ==
    LET r == GetMember_get_data(self, response) IN
    /\ self # None
    /\ self.class = "GetMember"
    /\ op' = Called("get_data", [none |-> TRUE], r, response, 0)
    /\ UNCHANGED <<self, clock>>

GetAMIBillData(electric_number, response) ==
    LET r == GetAMIBill_get_data(self, electric_number, response) IN
    /\ self # None
    /\ self.class = "GetAMIBill"
    /\ op' = Called("get_data", [electric_number |-> electric_number], r, response, 0)
    /\ UNCHANGED <<self, clock>>

GetAMIData(time_period, dt, electric_number, response) ==
    LET r == GetAMI_get_data(self, time_period, dt, electric_number, response) IN
    /\ self # None
    /\ self.class = "GetAMI"
    /\ op' = Called("get_data",
                    [time_period |-> time_period, datetime |-> dt,
                     electric_number |-> electric_number], r, response, 0)
    /\ UNCHANGED <<self, clock>>

GetBillRecordsData(electric_number, response) ==
    LET r == GetBillRecords_get_data(self, electric_number, response) IN
    /\ self # None
    /\ self.class = "GetBillRecords"
    /\ op' = Called("get_data", [electric_number |-> electric_number], r, response, 0)
    /\ UNCHANGED <<self, clock>>

\* time passes between calls
Tick ==
    /\ clock < MaxClock
    /\ clock' = clock + 1
    /\ UNCHANGED <<self, op>>

Init ==
    /\ self = None
    /\ clock = 0
    /\ op = [name |-> "none", args |-> None, t0 |-> 0, t1 |-> 0, reqs |-> <<>>,
             response |-> None, out |-> None]

Next ==
    \/ \E cls \in Classes, account \in Accounts, password \in Passwords,
          taipower_tokens \in SuppliedTokens \cup {None},
          response \in TokenResponses, device_id \in DeviceIds, d \in 0..MaxLatency :
            __init__(cls, account, password, taipower_tokens, response, device_id, d)
    \/ \E use_refresh_token \in BOOLEAN, response \in TokenResponses,
          device_id \in DeviceIds, d \in 0..MaxLatency :
            Login(use_refresh_token, response, device_id, d)
    \/ BaseGetData
    \/ \E response \in DataResponses : GetMemberData(response)
    \/ \E electric_number \in ElectricNumbers, response \in DataResponses :
            GetAMIBillData(electric_number, response)
    \/ \E time_period \in TimePeriods, dt \in Datetimes,
          electric_number \in ElectricNumbers, response \in DataResponses :
            GetAMIData(time_period, dt, electric_number, response)
    \/ \E electric_number \in ElectricNumbers, response \in DataResponses :
            GetBillRecordsData(electric_number, response)
    \/ Tick

Spec == Init /\ [][Next]_vars

\* ------------------------------------------------------- properties checked
\* the TokenSet the client holds (None when the attribute holds None)
Held == self._taipower_tokens

\* the last call was a login call: the explicit one, or the one __init__ makes
\* when no TokenSet is supplied
ExplicitLogin == op.name = "login"
CtorLogin == op.name = "__init__" /\ op.args.taipower_tokens = None

\* the token request of a password grant
PasswordGrant(req) ==
    /\ req.method = "POST"
    /\ req.url = <<"https:", "mapp-2019.taipower.com.tw", "oauth", "token">>
    /\ req.headers.Authorization = <<"Basic", BASIC_AUTH>>
    /\ DOMAIN req.body =
         {"username", "password", "grant_type", "scope", "device_id", "appVersion"}
    /\ req.body.username \in Accounts
    /\ \E p \in Passwords : req.body.password = des_encrypt(p)
    /\ req.body.grant_type = "password"
    /\ req.body.scope = "tpec"
    /\ req.body.device_id \in DeviceIds
    /\ req.body.appVersion = "3.0.6"

\* the response is a grant: it carries the four token fields
IsGrant(json) ==
    {"token_type", "access_token", "refresh_token", "expires_in"} \subseteq DOMAIN json

\* C1: a client whose construction completed holds a TokenSet, never None,
\* whatever the token endpoint answered.
C1_ConstructedHoldsTokenSet ==
    self # None => Held # None

\* C2: a non-200 answer of the token endpoint whose `error` field is a string
\* makes login return (that string, None), and makes the construction that
\* called login fail with that string after exactly one token request.
C2_Non200LoginFails ==
    ( /\ ExplicitLogin \/ CtorLogin
      /\ op.response # None
      /\ op.response.status_code # 200
      /\ HasKey(op.response.json, "error")
      /\ HasKey(op.response.json.error, "str") )
    => /\ Len(op.reqs) = 1
       /\ IF ExplicitLogin
          THEN op.out = Return(<<op.response.json.error.str, None>>)
          ELSE /\ op.out = Raise("RuntimeError", op.response.json.error.str)
               /\ self = None

\* C3: login(use_refresh_token=false) sends the password grant, and on a 200
\* bearer answer with access_token A, refresh_token R and expires_in T returns
\* ("OK", TokenSet(A, R, now + T)), `now` being the clock value login reads
\* during the call (between its start t0 and its return), nothing else added;
\* the construction-time login stores exactly that TokenSet.
C3_PasswordLoginIssuesTokens ==
    ( /\ (ExplicitLogin /\ ~op.args.use_refresh_token) \/ CtorLogin
      /\ op.response # None )
    => /\ Len(op.reqs) = 1
       /\ PasswordGrant(op.reqs[1])
       /\ op.reqs[1].encoding = "data"
       /\ ( /\ op.response.status_code = 200
            /\ IsGrant(op.response.json)
            /\ op.response.json.token_type = "bearer" )
          => LET issued == TaipowerTokens(op.response.json.access_token,
                                          op.response.json.refresh_token,
                                          op.t1 + op.response.json.expires_in)
             IN  /\ op.t0 <= op.t1
                 /\ op.t1 <= clock
                 /\ IF ExplicitLogin
                    THEN op.out = Return(<<"OK", issued>>)
                    ELSE op.out = Return(None) /\ self # None /\ Held = issued

\* C3 witness: a password login answered 200/bearer after the clock moved
\* during the call
C3_Witness ==
    /\ ExplicitLogin
    /\ ~op.args.use_refresh_token
    /\ op.response # None
    /\ op.response.status_code = 200
    /\ IsGrant(op.response.json)
    /\ op.response.json.token_type = "bearer"
    /\ op.response.json.expires_in = 2
    /\ op.t1 > op.t0
    /\ op.out.kind = "return"
    /\ op.out.value[2] # None

\* C4: on a client that holds a TokenSet, login(use_refresh_token=true) sends
\* exactly {refresh_token: held refresh_token, grant_type: "refresh_token"}
\* to the token endpoint, and on a 200 bearer answer returns ("OK", TokenSet)
\* with the answer's access_token and the held refresh_token.
C4_RefreshLoginSendsRefreshGrant ==
    ( /\ ExplicitLogin
      /\ op.args.use_refresh_token
      /\ Held # None )
    => /\ Len(op.reqs) = 1
       /\ op.reqs[1].url = <<"https:", "mapp-2019.taipower.com.tw", "oauth", "token">>
       /\ op.reqs[1].body =
            [refresh_token |-> Held.refresh_token, grant_type |-> "refresh_token"]
       /\ ( /\ op.response.status_code = 200
            /\ IsGrant(op.response.json)
            /\ op.response.json.token_type = "bearer" )
          => /\ op.out.kind = "return"
             /\ op.out.value[1] = "OK"
             /\ op.out.value[2] # None
             /\ op.out.value[2].access_token = op.response.json.access_token
             /\ op.out.value[2].refresh_token = Held.refresh_token

\* C5: constructing any of the five classes with a TokenSet issues no request
\* at all, succeeds, and leaves the client holding exactly that TokenSet.
C5_SuppliedTokensNoNetwork ==
    (op.name = "__init__" /\ op.args.taipower_tokens # None)
    => /\ op.reqs = <<>>
       /\ op.out = Return(None)
       /\ op.t1 = op.t0
       /\ self # None
       /\ self.class = op.args.cls
       /\ Held = op.args.taipower_tokens

\* C5 witness: an endpoint accessor was just constructed from a TokenSet
C5_Witness ==
    /\ op.name = "__init__"
    /\ op.args.taipower_tokens \in SuppliedTokens
    /\ op.args.cls = "GetAMI"
    /\ self # None
    /\ clock > 0

\* the last call was a get_data that put a request on the wire and got an answer
Sent == op.name = "get_data" /\ op.response # None

\* C6 as stated: 200 gives ("OK", body); any other status gives (the value of
\* the body's `error` field, body).
C6_SendClassifiesResponse ==
    Sent =>
       IF op.response.status_code = 200
       THEN op.out = Return(<<"OK", op.response.json>>)
       ELSE /\ op.out.kind = "return"
            /\ HasKey(op.response.json, "error")
            /\ JStr(op.out.value[1]) = op.response.json.error
            /\ op.out.value[2] = op.response.json

\* C6 amended: 200 gives ("OK", body); any other status whose body has an
\* `error` field gives (the field formatted as a string, body): the field
\* itself when it is a string, "None" for null, the digits of a number; any
\* other status whose body has no `error` field raises KeyError.
C6_SendClassifiesResponseAmended ==
    Sent =>
       IF op.response.status_code = 200
       THEN op.out = Return(<<"OK", op.response.json>>)
       ELSE IF HasKey(op.response.json, "error")
       THEN LET e == op.response.json.error IN
            /\ op.out.kind = "return"
            /\ op.out.value[2] = op.response.json
            /\ HasKey(e, "str") => op.out.value[1] = e.str
            /\ HasKey(e, "null") => op.out.value[1] = "None"
            /\ e = [num |-> 5] => op.out.value[1] = "5"
       ELSE op.out = Raise("KeyError", "error")

\* C6 witness: a send answered 403 with a null `error` field returned "None"
C6_Witness ==
    /\ Sent
    /\ op.response.status_code = 403
    /\ op.response.json = [error |-> [null |-> TRUE]]
    /\ op.out = Return(<<"None", op.response.json>>)

\* the last call was GetAMI.get_data
AmiCall == op.name = "get_data" /\ HasKey(op.args, "time_period")

\* the table of section 4.3: the body key of a granularity
C7_Key(time_period) ==
    CASE time_period = "hour" -> "date"
      [] time_period = "daily" -> "yearMonth"
      [] time_period = "monthly" -> "year"
      [] time_period = "quater" -> "date"

\* the table of section 4.3: the point in time written in the granularity's
\* format (YYYYMMDD, YYYYMM, YYYY), digit by digit
C7_Value(time_period, dt) ==
    LET yyyy == IF dt.year = 2024 THEN <<2, 0, 2, 4>> ELSE <<1, 9, 9, 9>>
        mm == IF dt.month = 1 THEN <<0, 1>> ELSE <<1, 2>>
        dd == IF dt.day = 5 THEN <<0, 5>> ELSE <<3, 1>>
    IN  CASE time_period \in {"hour", "quater"} -> yyyy \o mm \o dd
          [] time_period = "daily" -> yyyy \o mm
          [] time_period = "monthly" -> yyyy

\* C7: every request GetAMI.get_data issues is one POST to api/ami/<granularity>
\* of one of the four granularities, whose body holds the electric number under
\* custNo and the point in time under the table's key in the table's format,
\* and nothing else.
C7_AmiRequestShape ==
    (AmiCall /\ op.reqs # <<>>)
    => /\ Len(op.reqs) = 1
       /\ op.args.time_period \in {"hour", "daily", "monthly", "quater"}
       /\ op.reqs[1].method = "POST"
       /\ op.reqs[1].url =
            <<"https:", "mapp-2019.taipower.com.tw", "api", "ami", op.args.time_period>>
       /\ op.reqs[1].encoding = "json"
       /\ DOMAIN op.reqs[1].body = {"custNo", C7_Key(op.args.time_period)}
       /\ op.reqs[1].body["custNo"] = op.args.electric_number
       /\ op.reqs[1].body[C7_Key(op.args.time_period)] =
            C7_Value(op.args.time_period, op.args.datetime)

\* C7 witness: a `quater` fetch for 2024-01-05 posted {custNo, date: 20240105}
C7_Witness ==
    /\ AmiCall
    /\ op.args.time_period = "quater"
    /\ op.args.datetime = [year |-> 2024, month |-> 1, day |-> 5]
    /\ Len(op.reqs) = 1
    /\ op.reqs[1].body["date"] = <<2, 0, 2, 4, 0, 1, 0, 5>>

\* C8: a step that calls GetAMI.get_data with a granularity outside
\* {hour, daily, monthly, quater} raises ValueError, issues no request and
\* leaves the client (its TokenSet included) as it was.
C8_InvalidGranularity ==
    [][ ( /\ op'.name = "get_data"
          /\ HasKey(op'.args, "time_period")
          /\ op'.args.time_period \notin {"hour", "daily", "monthly", "quater"} )
        => /\ op'.out = Raise("ValueError", "time_period")
           /\ op'.reqs = <<>>
           /\ op'.response = None
           /\ self' = self ]_vars

\* C8 witness: `quarter` was refused on a client that holds a TokenSet
C8_Witness ==
    /\ AmiCall
    /\ op.args.time_period = "quarter"
    /\ Held # None
    /\ op.out.kind = "raise"

\* C9 as stated: once a login call returns ("OK", TokenSet), the client holds
\* that TokenSet.
C9_LoginReplacesHeld ==
    ( /\ ExplicitLogin
      /\ op.out.kind = "return"
      /\ op.out.value[1] = "OK"
      /\ op.out.value[2] # None )
    => Held = op.out.value[2]

\* C9 amended: the held TokenSet is whatever construction stored; no step on a
\* constructed client changes it, in whole or in part, not even a login call
\* that returns ("OK", new TokenSet); and every data request carries the held
\* access token as its Bearer.
C9_HeldSetOnlyByConstruction ==
    [][ /\ self # None => self' # None /\ self'._taipower_tokens = self._taipower_tokens
        /\ (op'.name = "get_data" /\ op'.reqs # <<>>)
           => op'.reqs[1].headers.Authorization =
                <<"Bearer", self'._taipower_tokens.access_token>> ]_vars

\* C9 witness: a login call returned a new TokenSet and the client still holds
\* the one it was constructed with
C9_Witness ==
    /\ ExplicitLogin
    /\ op.out.kind = "return"
    /\ op.out.value[1] = "OK"
    /\ op.out.value[2] # None
    /\ Held # None
    /\ Held # op.out.value[2]

\* C10: every get_data of the four accessors (given a valid granularity) issues
\* exactly one POST to a data endpoint with the held access token as Bearer,
\* none to the token endpoint, whatever the answer and the token's expiration.
C10_SendIssuesOnePost ==
    ( /\ op.name = "get_data"
      /\ self.class # "TaipowerConnection"
      /\ AmiCall => op.args.time_period \in {"hour", "daily", "monthly", "quater"} )
    => /\ Len(op.reqs) = 1
       /\ op.reqs[1].method = "POST"
       /\ op.reqs[1].url[3] \in {"member", "api"}
       /\ op.reqs[1].headers.Authorization = <<"Bearer", Held.access_token>>

====
